---- MODULE Spec2Model ----
(***************************************************************************)
(* A model of two parts of graph-tool:                                     *)
(*   - get_pagerank (src/graph/centrality/graph_pagerank.hh)               *)
(*   - the bulk edge-list loaders add_edge_list, add_edge_list_hash and    *)
(*     add_edge_list_iter (src/graph/graph_python_interface.cc)            *)
(* Each part has its own specification (SpecPR, SpecLoad); a specification *)
(* leaves the variables of the other part at their initial values.         *)
(***************************************************************************)
EXTENDS Integers, Sequences, FiniteSets, TLC

(***************************************************************************)
(* rank_type arithmetic.  A value is a pair <<n, d>>: for d > 0 the        *)
(* rational n/d in lowest terms; for d = 0 one of the IEEE-754 special     *)
(* values +Inf = <<1,0>>, -Inf = <<-1,0>>, NaN = <<0,0>>.  Finite values   *)
(* are exact (rounding is not modelled, signed zeros are not told apart);  *)
(* the special values follow IEEE-754, which never traps on x/0.           *)
(***************************************************************************)
RECURSIVE GCD(_, _)
GCD(a, b) == IF b = 0 THEN a ELSE GCD(b, a % b)

AbsInt(n) == IF n < 0 THEN -n ELSE n

Sgn(n) == IF n > 0 THEN 1 ELSE IF n < 0 THEN -1 ELSE 0

Norm(n, dd) ==
    IF dd = 0 THEN <<Sgn(n), 0>>
    ELSE LET k == GCD(AbsInt(n), dd) IN <<n \div k, dd \div k>>

Zero == <<0, 1>>
One == <<1, 1>>
NaN == <<0, 0>>
PosInf == <<1, 0>>

IsNaN(a) == a = NaN
IsInf(a) == a[2] = 0 /\ a[1] # 0
IsFinite(a) == a[2] > 0

Neg(a) == <<-a[1], a[2]>>

Add(a, b) ==
    IF IsNaN(a) \/ IsNaN(b) THEN NaN
    ELSE IF IsInf(a) THEN (IF IsInf(b) /\ b # a THEN NaN ELSE a)
    ELSE IF IsInf(b) THEN b
    ELSE LET k == GCD(a[2], b[2]) IN
         Norm(a[1] * (b[2] \div k) + b[1] * (a[2] \div k),
              (a[2] \div k) * b[2])

Sub(a, b) == Add(a, Neg(b))

Mul(a, b) == Norm(a[1] * b[1], a[2] * b[2])

Recip(b) ==
    IF b[1] > 0 THEN <<b[2], b[1]>>
    ELSE IF b[1] < 0 THEN <<-b[2], -b[1]>>
    ELSE <<Sgn(b[2]), 0>>

Div(a, b) == Mul(a, Recip(b))

Abs(a) == <<AbsInt(a[1]), a[2]>>

\* a >= b as the hardware compares: false as soon as one side is NaN
Geq(a, b) ==
    IF IsNaN(a) \/ IsNaN(b) THEN FALSE
    ELSE IF IsInf(a) /\ IsInf(b) THEN a[1] >= b[1]
    ELSE a[1] * b[2] >= b[1] * a[2]

\* a < b as the hardware compares
Lt(a, b) == ~IsNaN(a) /\ ~IsNaN(b) /\ ~Geq(a, b)

FromInt(n) == <<n, 1>>

\* ---- rounding -------------------------------------------------------------
\* bits of the significand of rank_type as the workers' sums are rounded
MantissaBits == 3

\* q >= 0 scaled by powers of two until its integer part has MantissaBits
\* bits: <<scaled q, exponent>>
RECURSIVE Scaled(_, _)
Scaled(q, e) ==
    IF q[1] >= (2 ^ MantissaBits) * q[2] THEN Scaled(Norm(q[1], 2 * q[2]), e + 1)
    ELSE IF q[1] < (2 ^ (MantissaBits - 1)) * q[2]
    THEN Scaled(Norm(2 * q[1], q[2]), e - 1)
    ELSE <<q, e>>

\* n / dd rounded to the nearest integer, a tie to the even one
RoundHalfEven(n, dd) ==
    LET lo == n \div dd
        twice == 2 * (n % dd)
    IN IF twice < dd THEN lo
       ELSE IF twice > dd THEN lo + 1
       ELSE IF lo % 2 = 0 THEN lo ELSE lo + 1

\* m times two to the e
TimesPow2(m, e) == IF e >= 0 THEN Norm(m * (2 ^ e), 1) ELSE Norm(m, 2 ^ (-e))

\* the value of rank_type nearest to q >= 0 (specials and zero as they are)
fl(q) ==
    IF ~IsFinite(q) \/ q[1] = 0 THEN q
    ELSE LET sc == Scaled(q, 0) IN
         TimesPow2(RoundHalfEven(sc[1][1], sc[1][2]), sc[2])

\* a + b as rank_type adds
FAdd(a, b) == fl(Add(a, b))

(***************************************************************************)
(* Bounds of the model.                                                    *)
(***************************************************************************)
\* number of vertices of the graphs PageRank runs on
NumV == 3
\* largest max_iter the caller passes (0 means unbounded)
MaxMaxIter == 3
\* cap on the iterations of a run whose max_iter is 0
IterCap == 4

V == 0 .. (NumV - 1)

(***************************************************************************)
(* State of get_pagerank::operator().                                      *)
(*   g, weight, pers, d, epsilon, max_iter : the arguments (never written) *)
(*   store   : the two vectors behind the property maps; "A" is the        *)
(*             storage of the caller's rank map, "B" the one r_temp        *)
(*             allocates.  A RankMap is a handle that shares its storage   *)
(*             with its copies, so the by-value parameter rank writes      *)
(*             through to the caller.                                      *)
(*   rank, r_temp : the local handles, each naming a storage               *)
(*   deg, delta, iter : the locals of the same names                       *)
(*   pc, todo : the position in the function and the vertices the current  *)
(*             parallel_vertex_loop has not yet visited                    *)
(* History variables (written, never read by the actions' guards):         *)
(*   rank_prev : the live rank vector when the current iteration began     *)
(*   computed  : the vector the last finished iteration wrote              *)
(*   deltas    : delta at the end of each finished iteration               *)
(***************************************************************************)
VARIABLES g, weight, pers, d, epsilon, max_iter,
          store, rank, r_temp, deg, delta, iter, pc, todo,
          rank_prev, computed, deltas

prvars == <<g, weight, pers, d, epsilon, max_iter,
            store, rank, r_temp, deg, delta, iter, pc, todo,
            rank_prev, computed, deltas>>

prargs == <<g, weight, pers, d, epsilon, max_iter>>

\* the state of one bulk load (graph_python_interface.cc)
VARIABLES nv, gedges, variant, aedge_list, oeprops, vtype, use_str,
          found, cand, path, lpc, err, vertices, vmap, eprops,
          nv0, gedges0, recs

ldvars == <<nv, gedges, variant, aedge_list, oeprops, vtype, use_str,
            found, cand, path, lpc, err, vertices, vmap, eprops,
            nv0, gedges0, recs>>

ldargs == <<variant, aedge_list, oeprops, vtype, use_str, nv0, gedges0>>

\* the graph as the calls of the Python interface see it (get_vertex,
\* add_vertex, add_edge, remove_edge): vertices, vertex filter, edges, handles
VARIABLES nverts, vfilter, filter_active, elist, removed, evalid,
          call, result

edvars == <<nverts, vfilter, filter_active, elist, removed, evalid,
            call, result>>

\* the workers of the parallel region of one PageRank iteration: who owns
\* which vertex, where each worker is, its r, its private delta, and the
\* accesses to shared storage made in the iteration
VARIABLES owner, wpos, wphase, wr, wdelta, accesses

wkvars == <<owner, wpos, wphase, wr, wdelta, accesses>>

vars == <<prvars, ldvars, edvars, wkvars>>

\* ---- the graph view ----------------------------------------------------
NumEdges == Len(g.edges)

\* source(e, g) and target(e, g) of an edge as a range hands it out
source(e) == e.src
target(e) == e.tgt

\* out_edges(v, g): for a directed view the stored edges leaving v; for an
\* undirected view every incident edge, seen from v (a self-loop twice)
RECURSIVE StoredOut(_, _)
StoredOut(v, i) ==
    IF i > NumEdges THEN <<>>
    ELSE (IF g.edges[i][1] = v
          THEN <<[idx |-> i, src |-> v, tgt |-> g.edges[i][2]]>>
          ELSE <<>>) \o StoredOut(v, i + 1)

RECURSIVE StoredIn(_, _)
StoredIn(v, i) ==
    IF i > NumEdges THEN <<>>
    ELSE (IF g.edges[i][2] = v
          THEN <<[idx |-> i, src |-> g.edges[i][1], tgt |-> v]>>
          ELSE <<>>) \o StoredIn(v, i + 1)

Flip(e) == [idx |-> e.idx, src |-> e.tgt, tgt |-> e.src]

RECURSIVE FlipAll(_)
FlipAll(es) == IF es = <<>> THEN <<>> ELSE <<Flip(Head(es))>> \o FlipAll(Tail(es))

out_edges_range(v) ==
    IF g.directed THEN StoredOut(v, 1)
    ELSE StoredOut(v, 1) \o FlipAll(StoredIn(v, 1))

\* in_or_out_edges_range(v, g): the in-edges of a directed view, the
\* out-edges (all incident edges) of an undirected one
in_or_out_edges_range(v) ==
    IF g.directed THEN StoredIn(v, 1) ELSE out_edges_range(v)

\* out_degreeS()(v, g, weight): the sum of weight over out_edges(v, g)
RECURSIVE SumWeights(_)
SumWeights(es) ==
    IF es = <<>> THEN Zero
    ELSE Add(FromInt(weight[Head(es).idx]), SumWeights(Tail(es)))

out_degreeS(v) == SumWeights(out_edges_range(v))

\* ---- the body of the rank loop -----------------------------------------
\* line 66-70: the vertex whose rank flows along e
FlowSource(e) == IF g.directed THEN source(e) ELSE target(e)

\* FlowTerm with the slip of reading the buffer being written (r_temp)
\* instead of the live rank map
FlowTermInPlace(e) ==
    Div(Mul(store[r_temp][FlowSource(e)], FromInt(weight[e.idx])),
        deg[FlowSource(e)])

\* line 71: one term of the sum, read from the live rank map and deg
FlowTerm(e) ==
    Div(Mul(store[rank][FlowSource(e)], FromInt(weight[e.idx])),
        deg[FlowSource(e)])

\* lines 63-72: r accumulated over the range, in range order
RECURSIVE RankSum(_, _)
RankSum(es, r) ==
    IF es = <<>> THEN r
    ELSE RankSum(Tail(es), Add(r, FlowTerm(Head(es))))

\* line 74: the value put into r_temp at v
NewRank(v) ==
    Add(Mul(Sub(One, d), pers[v]),
        Mul(d, RankSum(in_or_out_edges_range(v), Zero)))

\* line 54: the loop condition
LoopCond == Geq(delta, epsilon)

\* line 80: the max_iter break
MaxIterBreak(n) == max_iter > 0 /\ n = max_iter

\* line 84: the parity test of the fix-up
NeedsFixup == iter % 2 # 0

\* line 90: the copy of the fix-up, put(rank, v, get(r_temp, v))
FixupStore(v) ==
    [store EXCEPT ![rank][v] = store[r_temp][v]]

\* ---- inputs --------------------------------------------------------------
Graphs ==
    { <<<<0, 1>>>>,
      <<<<0, 1>>, <<1, 2>>, <<2, 0>>>>,
      <<<<0, 1>>, <<0, 2>>>>,
      <<<<0, 0>>, <<0, 1>>>>,
      <<<<0, 1>>, <<0, 1>>>>,
      <<<<0, 2>>, <<1, 2>>, <<2, 1>>>>,
      <<<<0, 1>>, <<1, 0>>, <<1, 2>>>> }

Weights == {0, 1, 2}

Epsilons == {<<1, 4>>, <<1, 64>>}

Dampings == {<<1, 2>>}

PersChoices ==
    { [v \in V |-> <<1, NumV>>],
      [v \in V |-> IF v = 0 THEN One ELSE Zero] }

InitialRank == [v \in V |-> <<1, NumV>>]

ZeroVec == [v \in V |-> Zero]

InitPR ==
    /\ \E es \in Graphs, dir \in BOOLEAN :
         g = [edges |-> es, directed |-> dir]
    /\ weight \in [1 .. Len(g.edges) -> Weights]
    /\ pers \in PersChoices
    /\ d \in Dampings
    /\ epsilon \in Epsilons
    /\ max_iter \in 0 .. MaxMaxIter
    /\ store = [h \in {"A", "B"} |-> IF h = "A" THEN InitialRank ELSE ZeroVec]
    /\ rank = "A"
    /\ r_temp = "B"
    /\ deg = ZeroVec
    /\ delta = Zero
    /\ iter = 0
    /\ pc = "init_degs"
    /\ todo = V
    /\ rank_prev = InitialRank
    /\ computed = InitialRank
    /\ deltas = <<>>

\* ---- actions -------------------------------------------------------------
\* lines 44-49: put(deg, v, out_degreeS()(v, g, weight)) for one vertex
InitDeg(v) ==
    /\ pc = "init_degs"
    /\ v \in todo
    /\ deg' = [deg EXCEPT ![v] = out_degreeS(v)]
    /\ todo' = todo \ {v}
    /\ UNCHANGED <<prargs, store, rank, r_temp, delta, iter, pc,
                   rank_prev, computed, deltas>>
    /\ UNCHANGED <<ldvars, edvars, wkvars>>

\* lines 51-53
StartLoop ==
    /\ pc = "init_degs"
    /\ todo = {}
    /\ delta' = Add(epsilon, One)
    /\ iter' = 0
    /\ pc' = "while"
    /\ UNCHANGED <<prargs, store, rank, r_temp, deg, todo,
                   rank_prev, computed, deltas>>
    /\ UNCHANGED <<ldvars, edvars, wkvars>>

\* lines 54-56: the condition holds, the iteration begins
LoopEnter ==
    /\ pc = "while"
    /\ LoopCond
    /\ iter < IterCap
    /\ delta' = Zero
    /\ todo' = V
    /\ pc' = "body"
    /\ rank_prev' = store[rank]
    /\ UNCHANGED <<prargs, store, rank, r_temp, deg, iter, computed, deltas>>
    /\ UNCHANGED <<ldvars, edvars, wkvars>>

\* line 54: the condition fails, the loop is left
LoopExit ==
    /\ pc = "while"
    /\ ~LoopCond
    /\ pc' = "after_loop"
    /\ UNCHANGED <<prargs, store, rank, r_temp, deg, delta, iter, todo,
                   rank_prev, computed, deltas>>
    /\ UNCHANGED <<ldvars, edvars, wkvars>>

\* lines 61-77: the lambda for one vertex
VertexBody(v) ==
    /\ pc = "body"
    /\ v \in todo
    /\ store' = [store EXCEPT ![r_temp][v] = NewRank(v)]
    /\ delta' = Add(delta, Abs(Sub(NewRank(v), store[rank][v])))
    /\ todo' = todo \ {v}
    /\ UNCHANGED <<prargs, rank, r_temp, deg, iter, pc,
                   rank_prev, computed, deltas>>
    /\ UNCHANGED <<ldvars, edvars, wkvars>>

\* lines 78-81: swap, ++iter, the max_iter break
SwapStep ==
    /\ pc = "body"
    /\ todo = {}
    /\ rank' = r_temp
    /\ r_temp' = rank
    /\ iter' = iter + 1
    /\ pc' = IF MaxIterBreak(iter + 1) THEN "after_loop" ELSE "while"
    /\ computed' = store[r_temp]
    /\ deltas' = Append(deltas, delta)
    /\ UNCHANGED <<prargs, store, deg, delta, todo, rank_prev>>
    /\ UNCHANGED <<ldvars, edvars, wkvars>>

\* line 84
FixupTest ==
    /\ pc = "after_loop"
    /\ IF NeedsFixup
       THEN pc' = "fixup" /\ todo' = V
       ELSE pc' = "done" /\ todo' = todo
    /\ UNCHANGED <<prargs, store, rank, r_temp, deg, delta, iter,
                   rank_prev, computed, deltas>>
    /\ UNCHANGED <<ldvars, edvars, wkvars>>

\* lines 86-91: the copy for one vertex
FixupCopy(v) ==
    /\ pc = "fixup"
    /\ v \in todo
    /\ store' = FixupStore(v)
    /\ todo' = todo \ {v}
    /\ UNCHANGED <<prargs, rank, r_temp, deg, delta, iter, pc,
                   rank_prev, computed, deltas>>
    /\ UNCHANGED <<ldvars, edvars, wkvars>>

\* line 93
Return ==
    /\ pc = "fixup"
    /\ todo = {}
    /\ pc' = "done"
    /\ UNCHANGED <<prargs, store, rank, r_temp, deg, delta, iter, todo,
                   rank_prev, computed, deltas>>
    /\ UNCHANGED <<ldvars, edvars, wkvars>>

NextPR ==
    \/ \E v \in V : InitDeg(v)
    \/ StartLoop
    \/ LoopEnter
    \/ LoopExit
    \/ \E v \in V : VertexBody(v)
    \/ SwapStep
    \/ FixupTest
    \/ \E v \in V : FixupCopy(v)
    \/ Return

\* the rank map as the caller sees it: the storage it passed in
CallerRank == store["A"]

(***************************************************************************)
(* Reference definitions for the claims about PageRank, written over the   *)
(* stored edge list and independent of the ranges the code walks.          *)
(***************************************************************************)
\* the weight of stored edge i counted for vertex u's weighted out-degree
RefDegTerm(u, i) ==
    LET w == FromInt(weight[i]) IN
    IF g.directed
    THEN (IF g.edges[i][1] = u THEN w ELSE Zero)
    ELSE Add(IF g.edges[i][1] = u THEN w ELSE Zero,
             IF g.edges[i][2] = u THEN w ELSE Zero)

RECURSIVE RefDegFrom(_, _)
RefDegFrom(u, i) ==
    IF i > NumEdges THEN Zero ELSE Add(RefDegTerm(u, i), RefDegFrom(u, i + 1))

RefDeg(u) == RefDegFrom(u, 1)

\* what stored edge i contributes to the sum S of vertex v
RefFlow(prev, s, i) == Div(Mul(prev[s], FromInt(weight[i])), RefDeg(s))

RefSumTerm(v, prev, i) ==
    IF g.directed
    THEN (IF g.edges[i][2] = v THEN RefFlow(prev, g.edges[i][1], i) ELSE Zero)
    ELSE Add(IF g.edges[i][1] = v THEN RefFlow(prev, g.edges[i][2], i) ELSE Zero,
             IF g.edges[i][2] = v THEN RefFlow(prev, g.edges[i][1], i) ELSE Zero)

RECURSIVE RefSumFrom(_, _, _)
RefSumFrom(v, prev, i) ==
    IF i > NumEdges THEN Zero
    ELSE Add(RefSumTerm(v, prev, i), RefSumFrom(v, prev, i + 1))

RefRank(v, prev) ==
    Add(Mul(Sub(One, d), pers[v]), Mul(d, RefSumFrom(v, prev, 1)))

\* iteration k ends the loop: its own delta is below epsilon, or it is the
\* max_iter-th
StopsAt(k) == Lt(deltas[k], epsilon) \/ (max_iter > 0 /\ k = max_iter)

(***************************************************************************)
(* C1.  When get_pagerank returns, whatever the number of iterations, the  *)
(* rank map the caller sees holds for every vertex the value the last      *)
(* executed iteration computed.                                            *)
(***************************************************************************)
C1_CallerSeesLastIteration ==
    pc = "done" => \A v \in V : CallerRank[v] = computed[v]

(***************************************************************************)
(* C2.  The loop runs at least one iteration and is left exactly after the *)
(* first iteration k >= 1 whose own delta is < epsilon or for which        *)
(* max_iter > 0 and k = max_iter; the reported count iter equals k.        *)
(***************************************************************************)
C2_ExitsAtFirstStop ==
    pc = "done" =>
        /\ iter >= 1
        /\ iter = Len(deltas)
        /\ StopsAt(iter)
        /\ \A j \in 1 .. (iter - 1) : ~StopsAt(j)

(***************************************************************************)
(* C3.  Every division of the rank sum has a divisor deg[s] > 0: in the    *)
(* rank loop, each edge a vertex still has to visit has a source of        *)
(* positive precomputed degree, so no division by zero is performed.       *)
(***************************************************************************)
C3_DivisorPositive ==
    pc = "body" =>
        \A v \in todo :
            LET es == in_or_out_edges_range(v) IN
            \A k \in 1 .. Len(es) : Lt(Zero, deg[FlowSource(es[k])])

(***************************************************************************)
(* C4.  In each iteration the value written for a vertex v is              *)
(* (1-d)*pers[v] + d*S, S being the sum over v's in-edges (incident edges  *)
(* of an undirected view) of rank_prev[s]*weight[e]/deg[s], with rank_prev *)
(* the rank vector at the start of the iteration and deg[s] the weighted   *)
(* out-degree of s.                                                        *)
(***************************************************************************)
C4_NewRankFormula ==
    pc = "body" =>
        \A v \in V \ todo : store[r_temp][v] = RefRank(v, rank_prev)

\* a second iteration has written, for a vertex with an in-edge, a finite
\* rank that the flow along the edges has changed
C4_Witness ==
    /\ pc = "body"
    /\ iter >= 1
    /\ todo = {}
    /\ \E v \in V :
         /\ in_or_out_edges_range(v) # <<>>
         /\ IsFinite(store[r_temp][v])
         /\ store[r_temp][v] # Mul(Sub(One, d), pers[v])
         /\ store[r_temp][v] # rank_prev[v]

(***************************************************************************)
(* C5.  With max_iter > 0 the run ends after at most max_iter iterations;  *)
(* when no iteration's delta was below epsilon it ends with                *)
(* iter = max_iter, and the caller's rank map then holds the ranks         *)
(* computed.                                                               *)
(***************************************************************************)
C5_MaxIterTermination ==
    (pc = "done" /\ max_iter > 0) =>
        /\ iter <= max_iter
        /\ (\A k \in 1 .. Len(deltas) : ~Lt(deltas[k], epsilon)) =>
               /\ iter = max_iter
               /\ \A v \in V : CallerRank[v] = computed[v]

(***************************************************************************)
(*                     The bulk edge-list loaders                          *)
(*                                                                         *)
(* do_add_edge_list ("array"), do_add_edge_list_hashed ("hashed") and      *)
(* do_add_edge_list_iter ("iter").  A behaviour is one call on a graph     *)
(* that may already hold vertices and edges.  A cell of the input is a     *)
(* non-negative integer: a vertex index, a key or an attribute value (in   *)
(* the string variant a cell n is the Python str holding n's decimal       *)
(* digits).  Rows are drawn as the loader consumes them.                   *)
(***************************************************************************)
\* rows of one call
MaxRecords == 2
\* columns of an input array, cells of an input row
MaxCols == 3

\* ---- text and conversions ----------------------------------------------
DigitChars == <<"0", "1", "2", "3", "4", "5", "6", "7", "8", "9">>

\* the decimal text of n, as lexical_cast<string> writes it
RECURSIVE ToDigits(_)
ToDigits(n) ==
    IF n < 0 THEN <<"-">> \o ToDigits(-n)
    ELSE IF n < 10 THEN <<DigitChars[n + 1]>>
    ELSE ToDigits(n \div 10) \o <<DigitChars[(n % 10) + 1]>>

DigitValue(c) == CHOOSE k \in 0 .. 9 : DigitChars[k + 1] = c

\* the number a decimal text (without sign) reads as
RECURSIVE FromDigits(_, _)
FromDigits(t, acc) ==
    IF t = <<>> THEN acc
    ELSE FromDigits(Tail(t), acc * 10 + DigitValue(Head(t)))

Fits16(n) == -(2 ^ 15) <= n /\ n < 2 ^ 15

Converted(v) == [ok |-> TRUE, val |-> v]
NotConverted == [ok |-> FALSE, val |-> 0]

\* lexical_cast<T>(r) of a numeric key r, T the value type of the vertex map:
\* r is written as text and the text is read back as a T
lexical_cast(T, r) ==
    LET text == ToDigits(r) IN
    CASE T = "string" -> Converted(text)
      [] T = "int64_t" -> Converted(FromDigits(text, 0))
      [] T = "int16_t" -> IF Fits16(FromDigits(text, 0))
                          THEN Converted(FromDigits(text, 0))
                          ELSE NotConverted

\* python::extract<T>(r) of a Python int r (object variant): no str from an int
extract(T, r) ==
    CASE T = "string" -> NotConverted
      [] T = "int64_t" -> Converted(r)
      [] T = "int16_t" -> IF Fits16(r) THEN Converted(r) ELSE NotConverted

\* the conversion put(eprops[i], e, val) makes into a map of value type T;
\* it fails when val cannot be represented in T
Convert(T, val) ==
    CASE T = "string" -> Converted(ToDigits(val))
      [] T = "int64_t" -> Converted(val)
      [] T = "int16_t" -> IF Fits16(val) THEN Converted(val) ELSE NotConverted

\* ---- state ---------------------------------------------------------------
(***************************************************************************)
(*   nv, gedges : the graph: num_vertices(g) and the edges in the order    *)
(*                add_edge created them (an edge's index is its position)  *)
(*   variant, aedge_list, oeprops, vtype, use_str : the call's arguments:  *)
(*                the entry point, the array's dtype, ndim and number of   *)
(*                columns, the value types of the supplied edge property   *)
(*                maps, the value type of the vertex map, is_str           *)
(*   found, cand : the found flag and the position of mpl::for_each in     *)
(*                vals_t                                                   *)
(*   path       : the loop body in use ("none" outside a loop)             *)
(*   lpc        : idle, dispatch, rows, returned, raised (an exception     *)
(*                left the call), crashed (undefined behaviour ended it)   *)
(*   err        : the exception: <<type, text named in the message>>       *)
(*   vertices   : the hash table of the hashed variants                    *)
(*   vmap, eprops : the entries this call has written to the vertex map    *)
(*                and to each edge property map                            *)
(* History variables: nv0, gedges0 (the graph when the call began), recs   *)
(* (the rows consumed so far).                                             *)
(***************************************************************************)

\* lines 451-453 and 702-704
vals_t == <<"bool", "char", "uint8_t", "uint16_t", "uint32_t", "uint64_t",
            "int8_t", "int16_t", "int32_t", "int64_t", "uint64_t", "double",
            "long double">>

NoErr == <<"none", <<>>>>
GraphExceptionDim == <<"GraphException: second dimension", <<>>>>
GraphExceptionType == <<"GraphException: invalid type", <<>>>>
ValueException(val) == <<"ValueException", ToDigits(val)>>
BadLexicalCast == <<"bad_lexical_cast", <<>>>>
PythonError == <<"error_already_set", <<>>>>
Crash == <<"crash", <<>>>>

\* the loader's working state, as the row operators pass it along
Working ==
    [nv |-> nv, gedges |-> gedges, vertices |-> vertices, vmap |-> vmap,
     eprops |-> eprops, err |-> NoErr, s |-> 0, t |-> 0, e |-> 0, ret |-> 0]

\* ---- graph primitives ----------------------------------------------------
\* add_vertex(g): the new vertex is the old num_vertices(g)
add_vertex(L) == [L EXCEPT !.nv = L.nv + 1]

\* add_edge with the slip of returning the existing edge when s -> t is
\* already in the graph
add_edge_unique(L, s, t) ==
    IF \E i \in 1 .. Len(L.gedges) : L.gedges[i] = <<s, t>>
    THEN [L EXCEPT !.e = CHOOSE i \in 1 .. Len(L.gedges) : L.gedges[i] = <<s, t>>]
    ELSE [L EXCEPT !.gedges = Append(L.gedges, <<s, t>>),
                   !.e = Len(L.gedges) + 1]

\* add_edge(vertex(s, g), vertex(t, g), g).first: always a new edge
add_edge(L, s, t) ==
    [L EXCEPT !.gedges = Append(L.gedges, <<s, t>>), !.e = Len(L.gedges) + 1]

\* NeedsVertex with the slip of testing the source only
NeedsVertexSourceOnly(n, s, t) == s >= n

\* line 425: the condition of the growing loop
NeedsVertex(n, s, t) == s >= n \/ t >= n

\* lines 425-426
RECURSIVE Grow(_, _, _)
Grow(L, s, t) ==
    IF NeedsVertex(L.nv, s, t) THEN Grow(add_vertex(L), s, t) ELSE L

\* lines 746-747: while (s >= num_vertices(g)) add_vertex(g)
RECURSIVE GrowOne(_, _)
GrowOne(L, x) == IF x >= L.nv THEN GrowOne(add_vertex(L), x) ELSE L

\* ---- one row -------------------------------------------------------------
\* OnBadCast with the slip of undoing the row's edge before throwing
OnBadCastRollback(L, val) ==
    [L EXCEPT !.err = ValueException(val),
              !.gedges = SubSeq(L.gedges, 1, Len(L.gedges) - 1)]

\* lines 434-438: catch (bad_lexical_cast&), throw ValueException naming val
OnBadCast(L, val) == [L EXCEPT !.err = ValueException(val)]

\* Put with the slip of writing at the edge before the row's own
PutAtPreviousEdge(L, i, val) ==
    LET c == Convert(oeprops[i], val) IN
    IF c.ok
    THEN [L EXCEPT !.eprops[i] = ((L.e - 1) :> c.val) @@ L.eprops[i]]
    ELSE OnBadCast(L, val)

\* lines 430-438: put(eprops[i], ne, val), i counted from 1 here
Put(L, i, val) ==
    LET c == Convert(oeprops[i], val) IN
    IF c.ok
    THEN [L EXCEPT !.eprops[i] = (L.e :> c.val) @@ L.eprops[i]]
    ELSE OnBadCast(L, val)

\* lines 428-439: the attribute loop of the array variants, i as in the code.
\* eprops[i] with i >= eprops.size() is undefined behaviour: ub is what the
\* build makes of it, the process dies ("crash") or goes on ("ignore")
RECURSIVE PutAttrs(_, _, _, _)
PutAttrs(L, row, i, ub) ==
    IF ~(i < Len(row) - 2) THEN L
    ELSE IF i >= Len(oeprops)
    THEN (IF ub = "crash" THEN [L EXCEPT !.err = Crash]
          ELSE PutAttrs(L, row, i + 1, ub))
    ELSE LET L1 == Put(L, i + 1, row[i + 3]) IN
         IF L1.err # NoErr THEN L1 ELSE PutAttrs(L1, row, i + 1, ub)

\* lines 421-440: one row of add_edge_list
ArrayRow(L, row, ub) ==
    LET s == row[1]
        t == row[2]
    IN PutAttrs(add_edge(Grow(L, s, t), s, t), row, 0, ub)

\* the key a cell is looked up by: the std::string extracted from it in the
\* string variant (line 589), the value itself otherwise
KeyOf(val) == IF path = "hash_str" THEN ToDigits(val) ELSE val

\* the value written to the vertex map for the key of cell val:
\* lines 511 and 563 (lexical_cast), line 641 (python::extract)
VMapValue(val) ==
    IF path = "hash_obj" THEN extract(vtype, val) ELSE lexical_cast(vtype, val)

\* the exception a failed conversion of a key raises
VMapError == IF path = "hash_obj" THEN PythonError ELSE BadLexicalCast

\* get_vertex with the slip of not recording the new vertex in the table
get_vertex_forgetful(L, val) ==
    LET v == L.nv
        c == VMapValue(val)
    IN [add_vertex(L) EXCEPT
           !.vmap = IF c.ok THEN (v :> c.val) @@ L.vmap ELSE L.vmap,
           !.err = IF c.ok THEN L.err ELSE VMapError,
           !.ret = v]

\* lines 504-515, 556-567, 634-645: the get_vertex lambda; the vertex is L.ret
get_vertex(L, val) ==
    IF KeyOf(val) \in DOMAIN L.vertices
    THEN [L EXCEPT !.ret = L.vertices[KeyOf(val)]]
    ELSE LET v == L.nv
             c == VMapValue(val)
         IN [add_vertex(L) EXCEPT
                !.vertices = (KeyOf(val) :> v) @@ L.vertices,
                !.vmap = IF c.ok THEN (v :> c.val) @@ L.vmap ELSE L.vmap,
                !.err = IF c.ok THEN L.err ELSE VMapError,
                !.ret = v]

\* lines 517-534: one row of the array body of add_edge_list_hash
HashArrayRow(L, row, ub) ==
    LET L1 == get_vertex(L, row[1]) IN
    IF L1.err # NoErr THEN L1
    ELSE LET L2 == get_vertex(L1, row[2]) IN
         IF L2.err # NoErr THEN L2
         ELSE PutAttrs(add_edge(L2, L1.ret, L2.ret), row, 0, ub)

\* case 0: lines 588-592, 666-670, 744-748
Case0(L, val) ==
    IF path = "iter"
    THEN [GrowOne(L, val) EXCEPT !.s = val]
    ELSE LET L1 == get_vertex(L, val) IN
         IF L1.err # NoErr THEN L1
         ELSE [GrowOne(L1, L1.ret) EXCEPT !.s = L1.ret]

\* Case1 with the slip of leaving out the loop that grows the graph up to t
Case1NoGrow(L, val) ==
    IF path = "iter"
    THEN LET L1 == [L EXCEPT !.t = val] IN
         add_edge(L1, L1.s, L1.t)
    ELSE LET L1 == get_vertex(L, val) IN
         IF L1.err # NoErr THEN L1
         ELSE LET L2 == [L1 EXCEPT !.t = L1.ret] IN
              add_edge(L2, L2.s, L2.t)

\* case 1: lines 593-598, 671-676, 749-754
Case1(L, val) ==
    IF path = "iter"
    THEN LET L1 == [GrowOne(L, val) EXCEPT !.t = val] IN
         add_edge(L1, L1.s, L1.t)
    ELSE LET L1 == get_vertex(L, val) IN
         IF L1.err # NoErr THEN L1
         ELSE LET L2 == [GrowOne(L1, L1.ret) EXCEPT !.t = L1.ret] IN
              add_edge(L2, L2.s, L2.t)

\* lines 581-611, 659-689, 737-767: the loop over the cells of one row
RECURSIVE CellLoop(_, _, _)
CellLoop(L, row, i) ==
    IF i >= Len(row) THEN L
    ELSE IF i >= Len(oeprops) + 2 THEN L
    ELSE LET val == row[i + 1]
             L1 == CASE i = 0 -> Case0(L, val)
                     [] i = 1 -> Case1(L, val)
                     [] OTHER -> Put(L, i - 1, val)
         IN IF L1.err # NoErr THEN L1 ELSE CellLoop(L1, row, i + 1)

\* the body of the loop over the rows, by variant
ProcessRow(L, row, ub) ==
    CASE path = "array" -> ArrayRow(L, row, ub)
      [] path = "hash_array" -> HashArrayRow(L, row, ub)
      [] OTHER -> CellLoop(L, row, 0)

\* ---- inputs --------------------------------------------------------------
InitGraphs ==
    { [nv |-> 0, edges |-> <<>>],
      [nv |-> 2, edges |-> <<<<0, 1>>>>] }

DTypes == {"int64_t", "uint64_t", "double", "float", "object"}

ArrayInputs ==
    { [dtype |-> dt, ndim |-> 2, ncols |-> c] : dt \in DTypes, c \in 1 .. MaxCols }
    \cup { [dtype |-> dt, ndim |-> 1, ncols |-> 0] : dt \in DTypes }

\* what do_add_edge_list_hashed is given: a two-dimensional numeric array,
\* or an iterable of rows (no scalar dtype)
HashedInputs ==
    { [dtype |-> "int64_t", ndim |-> 2, ncols |-> c] : c \in 1 .. MaxCols }
    \cup { [dtype |-> "object", ndim |-> 2, ncols |-> 0] }

IterInput == [dtype |-> "object", ndim |-> 2, ncols |-> 0]

EPropChoices == { <<>>, <<"int16_t">>, <<"string", "int16_t">> }

VTypes == {"int64_t", "int16_t", "string"}

IdxPairs == { <<0, 1>>, <<1, 2>>, <<2, 0>> }

KeyPairs == { <<7, 12>>, <<12, 30>>, <<100000, 7>> }

\* the attribute cells of a row, as many as the row has room for
AttrCells(n) ==
    { [i \in 1 .. n |-> IF i = 1 THEN a ELSE 8 + i] : a \in {8, 100000} }

RowsOfLength(pairs, n) ==
    IF n = 1 THEN { <<pr[1]>> : pr \in pairs }
    ELSE { pr \o at : pr \in pairs, at \in AttrCells(n - 2) }

\* the rows the loop in use may meet next
NextRows ==
    LET pairs == IF variant = "hashed" THEN KeyPairs ELSE IdxPairs IN
    IF path \in {"array", "hash_array"}
    THEN RowsOfLength(pairs, aedge_list.ncols)
    ELSE UNION { RowsOfLength(pairs, n) : n \in 1 .. MaxCols }

InitLoad ==
    /\ \E g0 \in InitGraphs :
         /\ nv = g0.nv /\ gedges = g0.edges
         /\ nv0 = g0.nv /\ gedges0 = g0.edges
    /\ variant \in {"array", "hashed", "iter"}
    /\ aedge_list \in (CASE variant = "array" -> ArrayInputs
                         [] variant = "hashed" -> HashedInputs
                         [] OTHER -> {IterInput})
    /\ oeprops \in EPropChoices
    /\ vtype \in (IF variant = "hashed" THEN VTypes ELSE {"int64_t"})
    /\ use_str \in (IF variant = "hashed" /\ aedge_list.dtype = "object"
                    THEN BOOLEAN ELSE {FALSE})
    /\ found = FALSE
    /\ cand = 1
    /\ path = "none"
    /\ lpc = "entry"
    /\ err = NoErr
    /\ vertices = <<>>
    /\ vmap = <<>>
    /\ eprops = [i \in 1 .. Len(oeprops) |-> <<>>]
    /\ recs = <<>>

\* ---- actions -------------------------------------------------------------
\* get_array<Value, 2>(aedge_list) returns (does not throw
\* invalid_numpy_conversion): the array holds Values and has two dimensions
GetArrayOk(Value) == aedge_list.dtype = Value /\ aedge_list.ndim = 2

\* lines 454-455, 705-707, 775-777: the entry points
Enter ==
    /\ lpc = "entry"
    /\ found' = FALSE
    /\ cand' = 1
    /\ IF variant = "iter"
       THEN lpc' = "rows" /\ path' = "iter"
       ELSE lpc' = "dispatch" /\ path' = "none"
    /\ UNCHANGED <<nv, gedges, ldargs, err, vertices, vmap, eprops, recs>>
    /\ UNCHANGED <<prvars, edvars, wkvars>>

\* lines 406-407, 488-489: found is set, the candidate returns at once
DispatchFound ==
    /\ lpc = "dispatch"
    /\ cand <= Len(vals_t)
    /\ found
    /\ cand' = cand + 1
    /\ UNCHANGED <<nv, gedges, ldargs, found, path, lpc, err, vertices, vmap,
                   eprops, recs>>
    /\ UNCHANGED <<prvars, edvars, wkvars>>

\* lines 410 and 443, 492 and 537: get_array throws, the catch swallows it
DispatchMismatch ==
    /\ lpc = "dispatch"
    /\ cand <= Len(vals_t)
    /\ ~found
    /\ ~GetArrayOk(vals_t[cand])
    /\ cand' = cand + 1
    /\ UNCHANGED <<nv, gedges, ldargs, found, path, lpc, err, vertices, vmap,
                   eprops, recs>>
    /\ UNCHANGED <<prvars, edvars, wkvars>>

\* lines 412-413, 495-496: fewer than two columns
DispatchDimError ==
    /\ lpc = "dispatch"
    /\ cand <= Len(vals_t)
    /\ ~found
    /\ GetArrayOk(vals_t[cand])
    /\ aedge_list.ncols < 2
    /\ lpc' = "raised"
    /\ err' = GraphExceptionDim
    /\ UNCHANGED <<nv, gedges, ldargs, found, cand, path, vertices, vmap,
                   eprops, recs>>
    /\ UNCHANGED <<prvars, edvars, wkvars>>

\* lines 415-421, 498-517: the candidate matches, its loop over the rows begins
DispatchLoad ==
    /\ lpc = "dispatch"
    /\ cand <= Len(vals_t)
    /\ ~found
    /\ GetArrayOk(vals_t[cand])
    /\ ~(aedge_list.ncols < 2)
    /\ lpc' = "rows"
    /\ path' = IF variant = "array" THEN "array" ELSE "hash_array"
    /\ UNCHANGED <<nv, gedges, ldargs, found, cand, err, vertices, vmap,
                   eprops, recs>>
    /\ UNCHANGED <<prvars, edvars, wkvars>>

\* what the build may make of the row's accesses to eprops: lines 432 and 525
\* have no test of i against eprops.size(), the other loops break (583)
Outcomes(row) ==
    IF path \in {"array", "hash_array"} /\ Len(row) - 2 > Len(oeprops)
    THEN {"crash", "ignore"}
    ELSE {"ignore"}

\* one pass of the loop over the rows
LoadRow(row, ub) ==
    /\ lpc = "rows"
    /\ Len(recs) < MaxRecords
    /\ row \in NextRows
    /\ LET L == ProcessRow(Working, row, ub) IN
         /\ nv' = L.nv
         /\ gedges' = L.gedges
         /\ vertices' = L.vertices
         /\ vmap' = L.vmap
         /\ eprops' = L.eprops
         /\ err' = L.err
         /\ lpc' = IF L.err = NoErr THEN "rows"
                   ELSE IF L.err = Crash THEN "crashed" ELSE "raised"
    /\ recs' = Append(recs, row)
    /\ UNCHANGED <<ldargs, found, cand, path>>
    /\ UNCHANGED <<prvars, edvars, wkvars>>

\* EndArrayRows with the slip of leaving found as it was
EndArrayRowsFoundUnset ==
    /\ lpc = "rows"
    /\ path \in {"array", "hash_array"}
    /\ cand' = cand + 1
    /\ lpc' = "dispatch"
    /\ UNCHANGED <<nv, gedges, ldargs, found, path, err, vertices, vmap, eprops,
                   recs>>
    /\ UNCHANGED <<prvars, edvars, wkvars>>

\* lines 441, 535: the array is exhausted, found = true, next candidate
EndArrayRows ==
    /\ lpc = "rows"
    /\ path \in {"array", "hash_array"}
    /\ found' = TRUE
    /\ cand' = cand + 1
    /\ lpc' = "dispatch"
    /\ UNCHANGED <<nv, gedges, ldargs, path, err, vertices, vmap, eprops, recs>>
    /\ UNCHANGED <<prvars, edvars, wkvars>>

\* lines 613, 691, 768-769: the iterable is exhausted
EndIterRows ==
    /\ lpc = "rows"
    /\ path \in {"hash_str", "hash_obj", "iter"}
    /\ found' = (IF path = "iter" THEN found ELSE TRUE)
    /\ lpc' = "returned"
    /\ UNCHANGED <<nv, gedges, ldargs, cand, path, err, vertices, vmap, eprops,
                   recs>>
    /\ UNCHANGED <<prvars, edvars, wkvars>>

\* NotFoundOutcome with the slip of returning normally when nothing matched
NotFoundIgnored(f) == <<"returned", NoErr>>

\* lines 458-459: if (!found) throw GraphException
NotFoundOutcome(f) ==
    IF ~f THEN <<"raised", GraphExceptionType>> ELSE <<"returned", NoErr>>

\* lines 456-460: for_each is through, do_add_edge_list tests found
FinishArray ==
    /\ lpc = "dispatch"
    /\ cand > Len(vals_t)
    /\ variant = "array"
    /\ lpc' = NotFoundOutcome(found)[1]
    /\ err' = NotFoundOutcome(found)[2]
    /\ UNCHANGED <<nv, gedges, ldargs, found, cand, path, vertices, vmap,
                   eprops, recs>>
    /\ UNCHANGED <<prvars, edvars, wkvars>>

\* lines 473-479: nothing matched, the string or the object body runs
Fallback ==
    /\ lpc = "dispatch"
    /\ cand > Len(vals_t)
    /\ variant = "hashed"
    /\ ~found
    /\ path' = IF use_str THEN "hash_str" ELSE "hash_obj"
    /\ lpc' = "rows"
    /\ UNCHANGED <<nv, gedges, ldargs, found, cand, err, vertices, vmap,
                   eprops, recs>>
    /\ UNCHANGED <<prvars, edvars, wkvars>>

\* lines 473 and 711: a candidate loaded the array, the call returns
FinishHashed ==
    /\ lpc = "dispatch"
    /\ cand > Len(vals_t)
    /\ variant = "hashed"
    /\ found
    /\ lpc' = "returned"
    /\ UNCHANGED <<nv, gedges, ldargs, found, cand, path, err, vertices, vmap,
                   eprops, recs>>
    /\ UNCHANGED <<prvars, edvars, wkvars>>

NextLoad ==
    \/ Enter
    \/ DispatchFound
    \/ DispatchMismatch
    \/ DispatchDimError
    \/ DispatchLoad
    \/ \E row \in NextRows : \E ub \in Outcomes(row) : LoadRow(row, ub)
    \/ EndArrayRows
    \/ EndIterRows
    \/ FinishArray
    \/ Fallback
    \/ FinishHashed

\* ---- the parallel region of one iteration (graph_pagerank.hh 56-78) ------
\* the threads of the team
Workers == {"w1", "w2"}

\* the vertices in the order the loop hands them out
VSeq == [i \in 1 .. NumV |-> i - 1]

\* the vertices worker w is given, in that order
OwnedSeq(w) == SelectSeq(VSeq, LAMBDA v : owner[v] = w)

\* the vertex worker w is at
Current(w) == OwnedSeq(w)[wpos[w] + 1]

\* weights of the runs with workers: all one, or growing along the edges
ParWeights == { [i \in 1 .. NumEdges |-> 1], [i \in 1 .. NumEdges |-> i] }

\* what the gathering of the sum for the edges es reads
GatherReads(w, es) ==
    UNION { { <<w, "r", rank, FlowSource(es[k])>>,
              <<w, "r", "deg", FlowSource(es[k])>>,
              <<w, "r", "weight", es[k].idx>> } : k \in 1 .. Len(es) }

\* Barrier with the slip of going on as soon as one worker is through
BarrierAnyWorker == \E w \in Workers : wphase[w] = "joined"

\* the end of the parallel region: every worker is through and its delta is
\* part of the reduction
Barrier == \A w \in Workers : wphase[w] = "joined"

InitPar ==
    /\ \E es \in Graphs, dir \in BOOLEAN :
         g = [edges |-> es, directed |-> dir]
    /\ weight \in ParWeights
    /\ pers = [v \in V |-> <<1, NumV>>]
    /\ d \in Dampings
    /\ epsilon = <<1, 64>>
    /\ max_iter = 0
    /\ store = [h \in {"A", "B"} |-> IF h = "A" THEN InitialRank ELSE ZeroVec]
    /\ rank = "A"
    /\ r_temp = "B"
    /\ deg = ZeroVec
    /\ delta = Zero
    /\ iter = 0
    /\ pc = "init_degs"
    /\ todo = V
    /\ rank_prev = InitialRank
    /\ computed = InitialRank
    /\ deltas = <<>>
    /\ owner \in [V -> Workers]
    /\ wpos = [w \in Workers |-> 0]
    /\ wphase = [w \in Workers |-> "joined"]
    /\ wr = [w \in Workers |-> Zero]
    /\ wdelta = [w \in Workers |-> Zero]
    /\ accesses = {}

\* lines 54-58: the condition holds, delta = 0, the team starts on the loop,
\* every worker with a private delta of zero
ParEnter ==
    /\ pc = "while"
    /\ LoopCond
    /\ iter < IterCap
    /\ delta' = Zero
    /\ pc' = "par"
    /\ rank_prev' = store[rank]
    /\ wpos' = [w \in Workers |-> 0]
    /\ wphase' = [w \in Workers |->
                    IF OwnedSeq(w) = <<>> THEN "done" ELSE "gather"]
    /\ wr' = [w \in Workers |-> Zero]
    /\ wdelta' = [w \in Workers |-> Zero]
    /\ accesses' = {}
    /\ UNCHANGED <<prargs, store, rank, r_temp, deg, iter, todo, computed,
                   deltas, owner>>
    /\ UNCHANGED <<ldvars, edvars>>

\* lines 63-72: worker w sums over the edges of its vertex
Gather(w) ==
    /\ pc = "par"
    /\ wphase[w] = "gather"
    /\ wr' = [wr EXCEPT ![w] = RankSum(in_or_out_edges_range(Current(w)), Zero)]
    /\ accesses' = accesses
                     \cup GatherReads(w, in_or_out_edges_range(Current(w)))
    /\ wphase' = [wphase EXCEPT ![w] = "put"]
    /\ UNCHANGED <<prvars, owner, wpos, wdelta>>
    /\ UNCHANGED <<ldvars, edvars>>

\* line 74: put(r_temp, v, (1.0 - d) * get(pers, v) + d * r)
PutTemp(w) ==
    /\ pc = "par"
    /\ wphase[w] = "put"
    /\ store' = [store EXCEPT ![r_temp][Current(w)] =
                    Add(Mul(Sub(One, d), pers[Current(w)]), Mul(d, wr[w]))]
    /\ accesses' = accesses \cup { <<w, "r", "pers", Current(w)>>,
                                   <<w, "w", r_temp, Current(w)>> }
    /\ wphase' = [wphase EXCEPT ![w] = "delta"]
    /\ UNCHANGED <<prargs, rank, r_temp, deg, delta, iter, pc, todo,
                   rank_prev, computed, deltas>>
    /\ UNCHANGED <<owner, wpos, wr, wdelta>>
    /\ UNCHANGED <<ldvars, edvars>>

\* line 76: delta += abs(get(r_temp, v) - get(rank, v)), on the private delta
AddDelta(w) ==
    /\ pc = "par"
    /\ wphase[w] = "delta"
    /\ wdelta' = [wdelta EXCEPT ![w] =
                     FAdd(wdelta[w],
                          fl(Abs(Sub(store[r_temp][Current(w)],
                                     store[rank][Current(w)]))))]
    /\ accesses' = accesses \cup { <<w, "r", r_temp, Current(w)>>,
                                   <<w, "r", rank, Current(w)>> }
    /\ wpos' = [wpos EXCEPT ![w] = wpos[w] + 1]
    /\ wphase' = [wphase EXCEPT ![w] =
                     IF wpos[w] + 1 = Len(OwnedSeq(w)) THEN "done" ELSE "gather"]
    /\ UNCHANGED <<prvars, owner, wr>>
    /\ UNCHANGED <<ldvars, edvars>>

\* lines 57-58: reduction(+:delta), the private delta of w joins the shared one
Join(w) ==
    /\ pc = "par"
    /\ wphase[w] = "done"
    /\ delta' = FAdd(delta, wdelta[w])
    /\ wphase' = [wphase EXCEPT ![w] = "joined"]
    /\ UNCHANGED <<prargs, store, rank, r_temp, deg, iter, pc, todo,
                   rank_prev, computed, deltas>>
    /\ UNCHANGED <<owner, wpos, wr, wdelta, accesses>>
    /\ UNCHANGED <<ldvars, edvars>>

\* lines 78-81 after the parallel region: swap, ++iter, the max_iter break
ParSwap ==
    /\ pc = "par"
    /\ Barrier
    /\ rank' = r_temp
    /\ r_temp' = rank
    /\ iter' = iter + 1
    /\ pc' = IF MaxIterBreak(iter + 1) THEN "after_loop" ELSE "while"
    /\ computed' = store[r_temp]
    /\ deltas' = Append(deltas, delta)
    /\ UNCHANGED <<prargs, store, deg, delta, todo, rank_prev>>
    /\ UNCHANGED <<ldvars, edvars, wkvars>>

NextPar ==
    \/ \E v \in V : InitDeg(v)
    \/ StartLoop
    \/ ParEnter
    \/ \E w \in Workers : Gather(w)
    \/ \E w \in Workers : PutTemp(w)
    \/ \E w \in Workers : AddDelta(w)
    \/ \E w \in Workers : Join(w)
    \/ ParSwap
    \/ LoopExit

\* ---- the calls of the Python interface ----------------------------------
\* vertices the graph may come to have, edges add_edge may come to make
MaxVerts == 3
MaxEdges == 2

\* line 84: graph_traits<Graph>::null_vertex()
null_vertex == -1

\* no call of the Python interface under way
NoCall == [op |-> "none", arg |-> <<>>]
NoResult == <<"none", 0>>

\* what a call hands back: a vertex handle, an edge handle, None, an exception
PythonVertex(v) == <<"vertex", v>>
PythonEdge(e) == <<"edge", e>>
None == <<"None", 0>>
InvalidDescriptor == <<"ValueException", 0>>

\* the vertices the filter hides, in the graphs looked at
HiddenChoices == { {}, {0}, {1}, {0, 2} }

\* the vertex handles add_edge is given: vertices, one that is not in the
\* graph unless it has grown, and the null vertex
EdgeArgs == { <<0, 1>>, <<1, 1>>, <<2, 0>>, <<null_vertex, 0>>, <<0, null_vertex>> }

\* vertices(g) of the view with the vertex filter: the vertices the filter
\* keeps, by index
RECURSIVE vertices_filtered(_)
vertices_filtered(i) ==
    IF i >= nverts THEN <<>>
    ELSE (IF vfilter[i] THEN <<i>> ELSE <<>>) \o vertices_filtered(i + 1)

\* vertex(i, g) of the view without vertex filter
vertex(i) == i

\* line 62
get_vertex_soft(i) == PythonVertex(vertex(i))

\* lines 73-82: the loop of get_vertex_hard from count c on
RECURSIVE HardLoop(_, _, _)
HardLoop(vs, c, i) ==
    IF vs = <<>> THEN PythonVertex(null_vertex)
    ELSE IF c = i THEN PythonVertex(Head(vs))
    ELSE HardLoop(Tail(vs), c + 1, i)

\* get_vertex_hard with the slip of counting over the stored vertices
get_vertex_hard_unfiltered(i) ==
    IF i < nverts THEN PythonVertex(i) ELSE PythonVertex(null_vertex)

\* lines 71-84
get_vertex_hard(i) == HardLoop(vertices_filtered(0), 0, i)

\* PythonVertex::CheckValid passes: the handle is of a vertex of the graph
VertexIsValid(v) == v # null_vertex /\ v >= 0 /\ v < nverts

\* PythonEdge::CheckValid passes: the handle has not been marked invalid
EdgeIsValid(h) == evalid[h]

\* lines 131-132: for (i = 0; i < n; ++i) add_vertex(gi.GetGraph())
RECURSIVE AddLoop(_, _, _)
AddLoop(count, i, n) ==
    IF i < n THEN AddLoop(count + 1, i + 1, n) ELSE count

\* lines 129-135 with the slip of adding nothing when n = 0
VerticesAfterNoneForZero(n) ==
    IF n > 1 THEN nverts + n ELSE IF n = 1 THEN nverts + 1 ELSE nverts

\* lines 129-135: num_vertices after add_vertex(g, n)
VerticesAfter(n) == IF n > 1 THEN AddLoop(nverts, 0, n) ELSE nverts + 1

\* get_edge_descriptor with the slip of leaving the handle valid
get_edge_descriptor_keeps_valid(h) ==
    IF ~EdgeIsValid(h)
    THEN [threw |-> TRUE, found |-> FALSE, evalid |-> evalid]
    ELSE [threw |-> FALSE, found |-> TRUE, evalid |-> evalid]

\* lines 190-194: CheckValid, SetValid(false), found = true
get_edge_descriptor(h) ==
    IF ~EdgeIsValid(h)
    THEN [threw |-> TRUE, found |-> FALSE, evalid |-> evalid]
    ELSE [threw |-> FALSE, found |-> TRUE,
          evalid |-> [evalid EXCEPT ![h] = FALSE]]

InitEdit ==
    /\ nverts \in {0, 2}
    /\ filter_active \in BOOLEAN
    /\ \E H \in (IF filter_active THEN HiddenChoices ELSE { {} }) :
         vfilter = [v \in 0 .. (MaxVerts - 1) |-> v \notin H]
    /\ elist = <<>>
    /\ removed = {}
    /\ evalid = <<>>
    /\ call = NoCall
    /\ result = NoResult

\* lines 88-101: get_vertex(g, i)
get_vertex_py(i) ==
    /\ call' = [op |-> "get_vertex", arg |-> <<i>>]
    /\ result' = IF filter_active THEN get_vertex_hard(i) ELSE get_vertex_soft(i)
    /\ UNCHANGED <<nverts, vfilter, filter_active, elist, removed, evalid>>
    /\ UNCHANGED <<prvars, ldvars, wkvars>>

\* lines 125-136: add_vertex(g, n)
add_vertex_py(n) ==
    /\ VerticesAfter(n) <= MaxVerts
    /\ call' = [op |-> "add_vertex", arg |-> <<n>>]
    /\ nverts' = VerticesAfter(n)
    /\ result' = IF n > 1 THEN None ELSE PythonVertex(nverts)
    /\ UNCHANGED <<vfilter, filter_active, elist, removed, evalid>>
    /\ UNCHANGED <<prvars, ldvars, wkvars>>

\* lines 168-181: add_edge(g, s, t)
add_edge_py(s, t) ==
    /\ Len(elist) < MaxEdges
    /\ call' = [op |-> "add_edge", arg |-> <<s, t>>]
    /\ IF ~VertexIsValid(s) \/ ~VertexIsValid(t)
       THEN /\ result' = InvalidDescriptor
            /\ UNCHANGED <<elist, evalid>>
       ELSE /\ elist' = Append(elist, <<s, t>>)
            /\ evalid' = Append(evalid, TRUE)
            /\ result' = PythonEdge(Len(elist) + 1)
    /\ UNCHANGED <<nverts, vfilter, filter_active, removed>>
    /\ UNCHANGED <<prvars, ldvars, wkvars>>

\* lines 198-207: remove_edge(gi, e), e the handle add_edge returned for edge h
remove_edge(h) ==
    /\ h \in 1 .. Len(elist)
    /\ call' = [op |-> "remove_edge", arg |-> <<h>>]
    /\ LET r == get_edge_descriptor(h) IN
       IF r.threw
       THEN /\ result' = InvalidDescriptor
            /\ UNCHANGED <<removed, evalid>>
       ELSE /\ removed' = removed \cup {h}
            /\ evalid' = r.evalid
            /\ result' = IF ~r.found THEN InvalidDescriptor ELSE None
    /\ UNCHANGED <<nverts, vfilter, filter_active, elist>>
    /\ UNCHANGED <<prvars, ldvars, wkvars>>

NextEdit ==
    \/ \E i \in 0 .. MaxVerts : get_vertex_py(i)
    \/ \E n \in 0 .. MaxVerts : add_vertex_py(n)
    \/ \E a \in EdgeArgs : add_edge_py(a[1], a[2])
    \/ \E h \in 1 .. MaxEdges : remove_edge(h)

\* ---- specifications ------------------------------------------------------
\* the loader at rest while PageRank runs
LoadIdle ==
    /\ nv = 0 /\ gedges = <<>> /\ nv0 = 0 /\ gedges0 = <<>>
    /\ variant = "iter" /\ aedge_list = IterInput /\ oeprops = <<>>
    /\ vtype = "int64_t" /\ use_str = FALSE
    /\ found = FALSE /\ cand = 1 /\ path = "none" /\ lpc = "idle"
    /\ err = NoErr /\ vertices = <<>> /\ vmap = <<>> /\ eprops = <<>>
    /\ recs = <<>>

\* PageRank at rest while a loader runs
PRIdle ==
    /\ g = [edges |-> <<>>, directed |-> TRUE]
    /\ weight = <<>> /\ pers = ZeroVec /\ d = Zero /\ epsilon = One
    /\ max_iter = 0
    /\ store = [h \in {"A", "B"} |-> ZeroVec]
    /\ rank = "A" /\ r_temp = "B" /\ deg = ZeroVec /\ delta = Zero
    /\ iter = 0 /\ pc = "idle" /\ todo = {}
    /\ rank_prev = ZeroVec /\ computed = ZeroVec /\ deltas = <<>>

EditIdle ==
    /\ nverts = 0 /\ vfilter = <<>> /\ filter_active = FALSE
    /\ elist = <<>> /\ removed = {} /\ evalid = <<>>
    /\ call = NoCall /\ result = NoResult

\* no parallel region entered
WorkersIdle ==
    /\ owner = <<>> /\ wpos = <<>> /\ wphase = <<>>
    /\ wr = <<>> /\ wdelta = <<>> /\ accesses = {}

\* a PageRank call, no load under way
InitRank == InitPR /\ LoadIdle /\ EditIdle /\ WorkersIdle

\* a bulk load, PageRank not called
InitBulk == InitLoad /\ PRIdle /\ EditIdle /\ WorkersIdle

\* calls of the Python interface, no PageRank and no load under way
InitCalls == InitEdit /\ PRIdle /\ LoadIdle /\ WorkersIdle

SpecPR == InitRank /\ [][NextPR]_vars

SpecEdit == InitCalls /\ [][NextEdit]_vars

\* a PageRank call with the workers of its parallel region
InitTeam == InitPar /\ LoadIdle /\ EditIdle

SpecPar == InitTeam /\ [][NextPar]_vars

SpecLoad == InitBulk /\ [][NextLoad]_vars

\* ---- what the loads are held against -------------------------------------
\* the rows that are edge records: a source, a target, then attribute values
EdgeRecords(rs) == SelectSeq(rs, LAMBDA r : Len(r) >= 2)

\* one more than the largest index the rows refer to, or n0 if that is more
RECURSIVE RefVertexCount(_, _)
RefVertexCount(rs, n0) ==
    IF rs = <<>> THEN n0
    ELSE LET r == Head(rs)
             a == IF r[1] + 1 > n0 THEN r[1] + 1 ELSE n0
             b == IF Len(r) >= 2 /\ r[2] + 1 > a THEN r[2] + 1 ELSE a
         IN RefVertexCount(Tail(rs), b)

\* the key cells of the rows, source before target, row after row
RECURSIVE KeyCells(_)
KeyCells(rs) ==
    IF rs = <<>> THEN <<>>
    ELSE SubSeq(Head(rs), 1, IF Len(Head(rs)) >= 2 THEN 2 ELSE Len(Head(rs)))
         \o KeyCells(Tail(rs))

\* the cells of cs without repetitions, in the order of first occurrence
RECURSIVE FirstSeen(_, _)
FirstSeen(cs, acc) ==
    IF cs = <<>> THEN acc
    ELSE IF \E j \in 1 .. Len(acc) : acc[j] = Head(cs)
    THEN FirstSeen(Tail(cs), acc)
    ELSE FirstSeen(Tail(cs), Append(acc, Head(cs)))

\* the load was aborted by the conversion of a key into the vertex map
KeyFailed == err \in {BadLexicalCast, PythonError}

\* a value of the vertex map, read as text
ValText(x) == IF vtype = "string" THEN x ELSE ToDigits(x)

\* the table, the vertex count and the edges agree with the first n key cells
HashedShape(n) ==
    LET fs == FirstSeen(SubSeq(KeyCells(recs), 1, n), <<>>)
        added == Len(gedges) - Len(gedges0)
    IN /\ DOMAIN vertices = {KeyOf(fs[j]) : j \in 1 .. Len(fs)}
       /\ \A j \in 1 .. Len(fs) : vertices[KeyOf(fs[j])] = nv0 + j - 1
       /\ nv = nv0 + Len(fs)
       /\ added <= Len(EdgeRecords(recs))
       /\ \A i \in 1 .. added :
            LET r == EdgeRecords(recs)[i] IN
            gedges[Len(gedges0) + i]
              = <<vertices[KeyOf(r[1])], vertices[KeyOf(r[2])]>>

\* the vertex map holds the keys of the first upto new vertices
VMapHolds(n, upto) ==
    LET fs == FirstSeen(SubSeq(KeyCells(recs), 1, n), <<>>) IN
    \A j \in 1 .. upto :
        /\ (nv0 + j - 1) \in DOMAIN vmap
        /\ ValText(vmap[nv0 + j - 1]) = ToDigits(fs[j])

NewKeys(n) == Len(FirstSeen(SubSeq(KeyCells(recs), 1, n), <<>>))

\* C6 as stated: in a hashed load equal keys resolve to one vertex and
\* distinct keys to distinct vertices, new vertices are numbered in first-seen
\* key order, as many vertices are added as there are distinct keys, and the
\* vertex map holds the key of every new vertex.
C6_VertexMapHoldsEveryKey ==
    variant = "hashed" =>
        \E n \in 0 .. Len(KeyCells(recs)) :
            /\ ~KeyFailed => n = Len(KeyCells(recs))
            /\ HashedShape(n)
            /\ VMapHolds(n, NewKeys(n))

\* C6, amended: as above, but the vertex map holds the key of every new
\* vertex whose key converted into the map's value type; when the conversion
\* of a key fails the load is aborted, and the vertex allocated for that key
\* (the last one) is left in the graph without an entry in the vertex map.
C6_HashedDedup ==
    variant = "hashed" =>
        \E n \in 0 .. Len(KeyCells(recs)) :
            /\ ~KeyFailed => n = Len(KeyCells(recs))
            /\ HashedShape(n)
            /\ VMapHolds(n, IF KeyFailed THEN NewKeys(n) - 1 ELSE NewKeys(n))
            /\ KeyFailed => /\ lpc = "raised"
                            /\ NewKeys(n) >= 1
                            /\ (nv - 1) \notin DOMAIN vmap

\* a hashed load on a graph that had vertices, a key met twice
C6_Witness ==
    /\ variant = "hashed"
    /\ lpc = "returned"
    /\ nv0 = 2
    /\ recs = <<<<7, 12>>, <<12, 30>>>>
    /\ nv = 5
    /\ gedges = <<<<0, 1>>, <<2, 3>>, <<3, 4>>>>

\* C7: in a load of add_edge_list from a graph of N0 vertices, once the rows
\* referring to M at most are loaded the graph has max(N0, M + 1) vertices and
\* one edge (s, t) more per row, in the order of the rows.
C7_DirectIndexGrowth ==
    (variant = "array" /\ lpc # "crashed") =>
        /\ nv = RefVertexCount(recs, nv0)
        /\ gedges = gedges0 \o [i \in 1 .. Len(recs) |-> <<recs[i][1], recs[i][2]>>]

C7_Witness ==
    /\ variant = "array"
    /\ lpc = "returned"
    /\ nv0 = 0
    /\ recs = <<<<0, 1>>, <<1, 2>>>>
    /\ nv = 3
    /\ gedges = <<<<0, 1>>, <<1, 2>>>>

\* what the step that raises the ValueException leaves behind
C8_Step ==
    /\ lpc' = "raised"
    /\ \E i \in 1 .. Len(oeprops) :
         /\ i + 2 <= Len(recs'[Len(recs')])
         /\ ~Convert(oeprops[i], recs'[Len(recs')][i + 2]).ok
         /\ err' = <<"ValueException", ToDigits(recs'[Len(recs')][i + 2])>>
    /\ Len(gedges') = Len(gedges) + 1
    /\ SubSeq(gedges', 1, Len(gedges)) = gedges
    /\ nv' >= nv
    /\ \A k \in DOMAIN vertices :
         k \in DOMAIN vertices' /\ vertices'[k] = vertices[k]
    /\ \A v \in DOMAIN vmap : v \in DOMAIN vmap' /\ vmap'[v] = vmap[v]
    /\ \A i \in 1 .. Len(oeprops) : \A e \in DOMAIN eprops[i] :
         e \in DOMAIN eprops'[i] /\ eprops'[i][e] = eprops[i][e]

\* C8: in every variant, when an attribute value of row k does not convert,
\* the load is aborted with an error that names the value, no step follows
\* (no later row is processed), and nothing is undone: the vertices, edges and
\* attribute values of the rows before k, and the edge of row k, stay.
C8_AbortKeepsPartialLoad ==
    [][ /\ err[1] # "ValueException"
        /\ err'[1] = "ValueException" => C8_Step ]_vars

C8_Witness ==
    /\ err[1] = "ValueException"
    /\ variant = "iter"
    /\ Len(recs) = 2
    /\ Len(gedges) = Len(gedges0) + 2
    /\ DOMAIN eprops[1] # {}

\* the array add_edge_list cannot load
BadArray ==
    \/ \A i \in 1 .. Len(vals_t) : vals_t[i] # aedge_list.dtype
    \/ aedge_list.ndim # 2
    \/ aedge_list.ncols < 2

\* C9: add_edge_list given an array of no candidate type, or not of two
\* dimensions with two columns at least, ends in an error, and the vertices,
\* the edges and the edge property maps are as they were before the call.
C9_BadArrayLeavesGraph ==
    (variant = "array" /\ BadArray) =>
        /\ lpc \in {"entry", "dispatch", "raised"}
        /\ lpc # "raised" => ENABLED NextLoad
        /\ lpc = "raised" => err \in {GraphExceptionType, GraphExceptionDim}
        /\ nv = nv0
        /\ gedges = gedges0
        /\ eprops = [i \in 1 .. Len(oeprops) |-> <<>>]

C9_Witness ==
    /\ variant = "array"
    /\ aedge_list.dtype = "float"
    /\ aedge_list.ndim = 2
    /\ aedge_list.ncols = 2
    /\ nv0 = 2
    /\ lpc = "raised"
    /\ err = GraphExceptionType

\* C10: in every variant, while no error has come up and when the load has
\* returned, the graph has its old edges and one new edge per edge record,
\* also where an edge with that source and target was there already.
C10_OneEdgePerRecord ==
    err = NoErr =>
        /\ Len(gedges) = Len(gedges0) + Len(EdgeRecords(recs))
        /\ SubSeq(gedges, 1, Len(gedges0)) = gedges0

\* a returned load that added an edge the graph had already, twice
C10_Witness ==
    /\ lpc = "returned"
    /\ gedges0 = <<<<0, 1>>>>
    /\ recs = <<<<0, 1>>, <<0, 1>>>>
    /\ gedges = <<<<0, 1>>, <<0, 1>>, <<0, 1>>>>

C12_EndpointsExist ==
    /\ nv >= nv0
    /\ \A i \in 1 .. Len(gedges) : gedges[i][1] < nv /\ gedges[i][2] < nv

\* an edge whose target had to be made first, in the loop over an iterable
C12_Witness ==
    /\ variant = "iter"
    /\ nv0 = 2
    /\ recs = <<<<1, 2>>>>
    /\ nv = 3
    /\ gedges = <<<<0, 1>>, <<1, 2>>>>

\* C13: a remove_edge that succeeds marks the edge handle invalid; every later
\* remove_edge through that handle ends in an error given to the caller and
\* leaves the edges as they are; add_edge given an invalid source or target
\* vertex handle ends in an error and adds no edge.
C13_InvalidHandlesRejected ==
    [][ /\ \A h \in removed' : ~evalid'[h]
        /\ call'.op = "remove_edge" =>
             IF call'.arg[1] \in removed
             THEN /\ result' = InvalidDescriptor
                  /\ removed' = removed /\ elist' = elist /\ evalid' = evalid
             ELSE /\ result' = None
                  /\ removed' = removed \cup {call'.arg[1]}
                  /\ elist' = elist
        /\ (/\ call'.op = "add_edge"
            /\ \E k \in 1 .. 2 :
                 \/ call'.arg[k] = null_vertex
                 \/ call'.arg[k] >= nverts)
             => /\ result' = InvalidDescriptor
                /\ elist' = elist /\ removed' = removed /\ evalid' = evalid ]_vars

\* the second remove_edge through a handle, another edge still in the graph
C13_Witness ==
    /\ call = [op |-> "remove_edge", arg |-> <<1>>]
    /\ result = InvalidDescriptor
    /\ removed = {1}
    /\ Len(elist) = 2
    /\ evalid = <<FALSE, TRUE>>

\* the sum of a rank vector over the vertices u, u + 1, ...
RECURSIVE SumFrom(_, _)
SumFrom(r, u) == IF u >= NumV THEN Zero ELSE Add(r[u], SumFrom(r, u + 1))

\* every vertex has an edge coming in, every weight is positive
ReachableAndPositive ==
    /\ \A v \in V : in_or_out_edges_range(v) # <<>>
    /\ \A i \in 1 .. NumEdges : weight[i] > 0

\* a and b differ by epsilon times the number of vertices at most
WithinTolerance(a, b) ==
    Geq(Mul(epsilon, FromInt(NumV)), Abs(Sub(a, b)))

\* C14: on a graph where every vertex is reachable and every weight is
\* positive, with damping in (0, 1), the ranks sum to the sum of the initial
\* ranks, up to a tolerance scaled by epsilon, after each iteration and at
\* return.
C14_RankSumConserved ==
    ReachableAndPositive =>
        /\ WithinTolerance(SumFrom(computed, 0), SumFrom(InitialRank, 0))
        /\ pc = "done" =>
             WithinTolerance(SumFrom(CallerRank, 0), SumFrom(InitialRank, 0))

\* ---- C15 ------------------------------------------------------------------
\* the delta one worker alone accumulates over the vertices vs, in order
RECURSIVE SeqDeltaFrom(_, _, _, _, _)
SeqDeltaFrom(old, new, vs, k, a) ==
    IF k > Len(vs) THEN a
    ELSE SeqDeltaFrom(old, new, vs, k + 1,
                      FAdd(a, fl(Abs(Sub(new[vs[k]], old[vs[k]])))))

\* the delta of a team of one
SeqDelta(old, new) == SeqDeltaFrom(old, new, VSeq, 1, Zero)

\* the partial delta of worker w under the partition in owner
PartDelta(old, new, w) == SeqDeltaFrom(old, new, OwnedSeq(w), 1, Zero)

\* the sum of the changes without any rounding
ExactDelta(old, new) == SumFrom([v \in V |-> Abs(Sub(new[v], old[v]))], 0)

\* an iteration is complete: its swap is done
IterationDone == pc # "par" /\ iter > 0

LastDelta == deltas[Len(deltas)]

\* no entry is written by one worker and touched by another
NoRace ==
    \A a \in accesses, b \in accesses :
        (a[1] # b[1] /\ a[3] = b[3] /\ a[4] = b[4])
            => (a[2] = "r" /\ b[2] = "r")

\* writes go to the scratch buffer, each worker to its own vertices
WritesOwnScratch ==
    pc = "par" =>
        \A a \in accesses : a[2] = "w" => (a[3] = r_temp /\ owner[a[4]] = a[1])

\* reads go to the live rank buffer, the degrees, pers and weight only
ReadsOnlyLive ==
    pc = "par" =>
        \A a \in accesses :
            a[2] = "r" => a[3] \in {rank, "deg", "pers", "weight"}

\* as ReadsOnlyLive, but a worker may read back the scratch entry it wrote
ReadsLiveOrOwnScratch ==
    pc = "par" =>
        \A a \in accesses :
            a[2] = "r" => \/ a[3] \in {rank, "deg", "pers", "weight"}
                          \/ <<a[1], "w", a[3], a[4]>> \in accesses

\* the scratch buffer of a complete iteration is the new rank of every vertex
ScratchIsNewRank ==
    IterationDone => computed = [v \in V |-> RefRank(v, rank_prev)]

\* swap and test come after every worker is through
SwapAfterAllWorkers == pc # "par" => Barrier

\* the number of roundings one summand can go through
RoundingDepth == NumV + 3

\* the reduced delta is the exact sum up to the roundings of the additions
DeltaWithinRounding ==
    IterationDone =>
        Geq(Mul(ExactDelta(rank_prev, computed), FromInt(RoundingDepth)),
            Mul(Abs(Sub(LastDelta, ExactDelta(rank_prev, computed))),
                FromInt(2 ^ MantissaBits - RoundingDepth)))

LoadMutates == nv' # nv \/ gedges' # gedges \/ recs' # recs

C16_Step ==
    variant = "array" =>
        \* candidates are visited in list order, one after the other
        /\ cand' = cand \/ cand' = cand + 1
        \* the body mutates only inside the loop of the one matching candidate
        /\ LoadMutates =>
               /\ lpc = "rows" /\ ~found /\ cand' = cand
               /\ cand <= Len(vals_t) /\ GetArrayOk(vals_t[cand])
        \* the loop over the records is entered once, with nothing loaded yet
        /\ (lpc = "dispatch" /\ lpc' = "rows") =>
               ~found /\ recs = <<>> /\ GetArrayOk(vals_t[cand])
        \* a candidate that does not match fails before any mutation
        /\ (lpc = "dispatch" /\ cand <= Len(vals_t)
                /\ ~GetArrayOk(vals_t[cand])) =>
               ~LoadMutates /\ lpc' = "dispatch" /\ cand' = cand + 1
        \* once found, every later candidate is skipped
        /\ found => found' /\ ~LoadMutates /\ lpc' # "rows"

\* C16: add_edge_list tries its candidate types in list order; the loading
\* body mutates the graph under at most one of them, a candidate that does not
\* match fails before anything is added, and after found = true every later
\* candidate is skipped, so no record is loaded twice in one call.
C16_OneCandidateLoads == [][C16_Step]_vars

\* a call returned after the first uint64_t candidate loaded a record and the
\* second uint64_t candidate was passed
C16_Witness ==
    /\ variant = "array"
    /\ aedge_list.dtype = "uint64_t"
    /\ lpc = "returned"
    /\ found
    /\ Len(recs) = 1
    /\ Len(gedges) = Len(gedges0) + 1

\* ---- C17 ------------------------------------------------------------------
\* C17: no bulk loader accesses the list of edge property maps at a position
\* at or past its length k; columns beyond 2+k are ignored and nothing is
\* written for them.  An access past the end of eprops is undefined: the load
\* may go on as if the column were ignored, or end in a crash.
C17_NoAccessPastProps == err # Crash /\ lpc # "crashed"

\* ---- C18 ------------------------------------------------------------------
\* the vertices the view shows
Visible == { v \in 0 .. nverts - 1 : vfilter[v] }

\* how many visible vertices come before v
VisibleBefore(v) == Cardinality({ u \in Visible : u < v })

\* C18: get_vertex(g, i) never returns a filtered-out vertex; with a vertex
\* filter active it returns the i-th vertex of the filtered view, counting from
\* 0, and the null vertex when i is not below the number of visible vertices;
\* with no vertex filter active it returns the vertex of index i.
C18_GetVertexSkipsHidden ==
    call.op = "get_vertex" =>
        /\ result[1] = "vertex"
        /\ result[2] \in 0 .. nverts - 1 => vfilter[result[2]]
        /\ IF filter_active
           THEN IF call.arg[1] >= Cardinality(Visible)
                THEN result = PythonVertex(null_vertex)
                ELSE /\ result[2] \in Visible
                     /\ VisibleBefore(result[2]) = call.arg[1]
           ELSE result = PythonVertex(call.arg[1])

\* get_vertex(g, 1) on a view that hides vertices 0 and 2 of three, which
\* shows one vertex only, returned the null vertex
C18_WitnessNull ==
    /\ call = [op |-> "get_vertex", arg |-> <<1>>]
    /\ filter_active
    /\ nverts = 3
    /\ ~vfilter[0] /\ vfilter[1] /\ ~vfilter[2]
    /\ result = PythonVertex(null_vertex)

\* get_vertex(g, 0) on a view that hides vertex 0 returned vertex 1
C18_Witness ==
    /\ call = [op |-> "get_vertex", arg |-> <<0>>]
    /\ filter_active
    /\ ~vfilter[0]
    /\ result = PythonVertex(1)

\* ---- C19 ------------------------------------------------------------------
\* a step that is a call add_vertex(g, n)
C19_Step ==
    call'.op = "add_vertex" =>
        LET n == call'.arg[1] IN
        /\ n > 1 => nverts' = nverts + n /\ result' = None
        /\ n <= 1 => /\ nverts' = nverts + 1
                     /\ result' = PythonVertex(nverts' - 1)
                     /\ result'[2] \notin 0 .. nverts - 1
        /\ elist' = elist /\ evalid' = evalid /\ removed' = removed
        /\ vfilter' = vfilter /\ filter_active' = filter_active

\* C19: add_vertex(g, n) with n > 1 adds exactly n vertices and returns no
\* vertex handle; with n <= 1, n = 0 included, it adds exactly one vertex and
\* returns a handle to it; existing vertices and edges stay as they are.
C19_AddVertexCounts == [][C19_Step]_vars

\* add_vertex(g, 0) was called on a graph with an edge, and returned the
\* handle of the one vertex it added
C19_Witness ==
    /\ call = [op |-> "add_vertex", arg |-> <<0>>]
    /\ nverts = 3
    /\ result = PythonVertex(2)
    /\ elist # <<>>

\* add_vertex(g, 2) was called and returned None
C19_WitnessMany ==
    /\ call = [op |-> "add_vertex", arg |-> <<2>>]
    /\ nverts = 2
    /\ result = None

====
